---- MODULE Spec2Model ----
(***************************************************************************)
(* Model of the scheduled refresh pipeline of the AI stock dashboard       *)
(* backend: SchedulerService (services/scheduler.py), the scoring adapter  *)
(* AIService (services/ai_service.py), the pydantic models (models.py)     *)
(* the dashboard reader and the HTTP routes (api/routes.py, the config     *)
(* route of api/admin_routes.py), the provider selection of StockService   *)
(* (services/stock_service.py) and the RateLimiter with its decorators     *)
(* (services/rate_limiter.py), the quote fetching of StockService, the      *)
(* multi-model scoring of MultiAIService (services/multi_ai_service.py)    *)
(* and the tracked stocks of UserStockService (services/user_service.py).  *)
(*                                                                         *)
(* Every statement of the cycle driver that touches a field shared with    *)
(* another thread is one action, so that the interleavings of triggers,    *)
(* cycle threads, worker tasks and readers are the program's.              *)
(***************************************************************************)
EXTENDS Integers, Sequences, FiniteSets, TLC

\* ------------------------------------------------------------------ bounds
\* Number of cycle threads (threading.Thread) the triggers may start.
MaxCycles == 2

\* Number of record_call calls one RateLimiter is followed through.
MaxRecords == 40

\* Seconds the clock is followed for, and provider calls issued, while pool
\* threads go through the rate-limited wrapper.
MaxClock == 30
MaxCalls == 6

\* Pool threads inside the rate-limited wrapper at the same time.
PoolThreads == 2

\* ------------------------------------------------------- program constants
\* alpha_vantage_rate_limiter = RateLimiter(calls_per_minute=5, calls_per_day=500)
calls_per_minute == 5
calls_per_day == 500

\* @retry_with_backoff(max_retries=2, base_delay=1.0) on _fetch_alpha_vantage_data
max_retries == 2
base_delay == 1

\* retry_with_backoff(max_retries=5, ...) on _fetch_polygon_data
polygon_max_retries == 5

\* SubscriptionTier.FREE: {"max_stocks": 5}
max_stocks == 5

\* ------------------------------------------------------- environment values
\* What config.get_stock_symbols() may find in admin_config.json: a symbol
\* list, or a document that is no JSON object (config_data.get then raises).
Malformed == <<"<malformed>">>
LongestList == <<"AAPL", "TSLA">>
ConfigValues == {LongestList, <<"TSLA">>, Malformed}

\* Positions of a cycle's futures.
TaskIds == DOMAIN LongestList

\* Outcomes of StockService.fetch_stock_data(symbol) as seen by its caller:
\* a StockData, None, a StockDataException subclass, or another exception.
FetchOutcomes == {"quote", "none", "StockDataException", "Exception"}

\* What the scoring backend answers: a JSON object with a score, text that
\* is no JSON, or a network/auth error.
BackendOutcomes == {"json", "malformed", "error"}

\* Numbers the backend may put in "score".
BackendScores == {-5, 70, 120}

\* Aggregate scores of the records a worker task may return.
Scores == {40, 70}

VARIABLES
    is_updating,       \* SchedulerService.is_updating
    latest_analysis,   \* SchedulerService.latest_analysis
    latest_errors,     \* SchedulerService.latest_errors
    last_updated,      \* SchedulerService.last_updated (0 is None)
    cfg,               \* stock_symbols as stored in admin_config.json
    DEBUG,             \* config.DEBUG
    api_key,           \* which of OPENAI_API_KEY / GROQ_API_KEY is set
    executor_shutdown, \* ThreadPoolExecutor after shutdown()
    skipped,           \* the last update_stock_analysis call returned early
    nThreads,          \* cycle threads started so far
    threads,           \* locals of each _update_stock_analysis_async thread
    reader,            \* a dashboard request reading the three fields
    data_source,       \* "data_source" as stored in admin_config.json
    use_mock_data,     \* StockService.use_mock_data
    scheduler_service, \* routes.scheduler_service is set (FALSE is None)
    request,           \* the HTTP request being served and its response
    clock,             \* time.time(), in seconds
    rate_limiter,      \* the RateLimiter of the quote provider
    workers,           \* pool threads inside the rate-limited wrapper
    issued,            \* provider calls issued so far, per minute
    history,           \* the last record_call: outcome, delay before, streak
    api_keys,          \* the provider API keys as config returns them ("" is none)
    stock_service,     \* StockService: its two clients and its last probe
    fetching,          \* a fetch_stock_data call and what it ended in
    admission,         \* the last can_make_call: what it saw and returned
    recording,         \* pool threads inside record_call, statement by statement
    recorded,          \* record_call calls that have returned, by their flag
    scored,            \* the last analyze_stock_multi_ai call and its result
    user_stocks,       \* the user_stocks collection of one user, per symbol
    adding             \* add_user_stock coroutines between their awaits

vars == <<is_updating, latest_analysis, latest_errors, last_updated, cfg, DEBUG,
          api_key, executor_shutdown, skipped, nThreads, threads, reader,
          data_source, use_mock_data, scheduler_service, request, clock,
          rate_limiter, workers, issued, history, api_keys, stock_service,
          fetching, admission, recording, recorded, scored, user_stocks, adding>>

store == <<is_updating, latest_analysis, latest_errors, last_updated>>

deployment == <<DEBUG, api_key>>

selection == <<data_source, use_mock_data>>

api == <<scheduler_service, request>>

governor == <<clock, rate_limiter, workers, issued, history>>

adapter == <<api_keys, stock_service, fetching>>

limiter == <<admission, recording, recorded>>

tracking == <<user_stocks, adding>>

\* What no step of the scheduler, of the routes or of the wrapper writes.
elsewhere == <<adapter, limiter, scored, tracking>>

\* What no step of a refresh cycle writes.
beyond == <<selection, api, governor, elsewhere>>

ThreadIds == 1..MaxCycles

\* ------------------------------------------------------------ pydantic models
\* models.AIAnalysis: ai_model, score and reason are all required fields;
\* constructing it without one of them raises a ValidationError.
AIAnalysis(fields) ==
    IF {"ai_model", "score", "reason"} \subseteq DOMAIN fields
    THEN [ok |-> TRUE, exc |-> "", score |-> fields.score]
    ELSE [ok |-> FALSE, exc |-> "ValidationError", score |-> 0]

Raised(e) == [ok |-> FALSE, exc |-> e, score |-> 0]

\* Return values of analyze_single_stock (Optional[StockAnalysis]) and the
\* outcome of a future whose task raised.
None == [kind |-> "None", symbol |-> "", average_score |-> 0]
TaskRaised == [kind |-> "raise", symbol |-> "", average_score |-> 0]
StockAnalysis(symbol, score) ==
    [kind |-> "StockAnalysis", symbol |-> symbol, average_score |-> score]

ApiError(type, symbol) == [type |-> type, symbol |-> symbol]

\* A future of the worker pool.
Pending(symbol) ==
    [symbol |-> symbol, done |-> FALSE, result |-> None, fetch |-> "", backend |-> "",
     provider |-> "", hung |-> FALSE]

\* --------------------------------------------------------------- AIService
Clamp(lo, hi, n) == IF n < lo THEN lo ELSE IF n > hi THEN hi ELSE n

\* AIService._generate_mock_analysis: builds AIAnalysis(score=, reason=).
AIService_generate_mock_analysis(mock_score) ==
    AIAnalysis([score |-> Clamp(10, 90, mock_score), reason |-> "mock"])

\* AIService._get_real_analysis_groq / _get_real_analysis_open_ai.
AIService_get_real_analysis(backend, n, debug, key) ==
    LET typed == IF key = "groq" THEN "GroqException" ELSE "OpenAIException"
        body == CASE backend = "error" -> Raised("APIError")
                  [] backend = "json" ->
                       AIAnalysis([score |-> Clamp(0, 100, n), reason |-> "r"])
                  [] OTHER ->
                       AIAnalysis([score |-> 50, reason |-> "raw"])
    IN  IF body.ok THEN body
        ELSE IF debug THEN AIService_generate_mock_analysis(n)
        ELSE Raised(typed)

\* AIService.analyze_stock.
AIService_analyze_stock(backend, n, debug, key) ==
    LET typed == IF key = "groq" THEN "GroqException" ELSE "OpenAIException"
        body == IF key = "none"
                THEN IF debug THEN AIService_generate_mock_analysis(n)
                     ELSE Raised("OpenAIException")
                ELSE AIService_get_real_analysis(backend, n, debug, key)
    IN  IF body.ok THEN body
        ELSE IF body.exc \in {"OpenAIException", "GroqException"} THEN body
        ELSE IF debug THEN AIService_generate_mock_analysis(n)
        ELSE Raised(typed)

\* ------------------------------------------------------------ MultiAIService
\* AIModelType and SubscriptionTier; get_subscription_limits(tier).ai_models.
AIModelTypes == <<"basic", "warren_buffet", "peter_lynch", "dcf_math">>

get_subscription_limits(tier) ==
    IF tier = "expert" THEN AIModelTypes
    ELSE IF tier = "pro" THEN SubSeq(AIModelTypes, 1, 3)
    ELSE SubSeq(AIModelTypes, 1, 1)

\* What the scoring backend answers to one request, <<outcome, score>>; the
\* score is also the number a mock analysis has before it is clamped.
PersonaAnswers ==
    {<<"json", n>> : n \in BackendScores} \cup {<<"malformed", 0>>, <<"error", 0>>}

\* MultiAIService._generate_mock_analysis: max(0, min(100, base_score)).
MultiAIService_generate_mock_analysis(ai_model, base_score) ==
    AIAnalysis([ai_model |-> ai_model, score |-> Clamp(0, 100, base_score),
                reason |-> "mock"])

\* MultiAIService._get_analysis_openai / _get_analysis_groq: the score of a
\* JSON answer as it is, None on any exception.
MultiAIService_get_analysis(ai_model, backend, n) ==
    IF backend = "json"
    THEN AIAnalysis([ai_model |-> ai_model, score |-> n, reason |-> "r"])
    ELSE Raised("None")

\* MultiAIService._analyze_with_model
analyze_with_model(ai_model, backend, n, debug, key) ==
    IF ai_model = "basic"
    THEN LET basic_analysis == AIService_analyze_stock(backend, n, debug, key)
         IN  IF basic_analysis.ok
             THEN AIAnalysis([ai_model |-> ai_model, score |-> basic_analysis.score,
                              reason |-> "r"])
             ELSE basic_analysis
    ELSE IF debug \/ key = "none"
    THEN MultiAIService_generate_mock_analysis(ai_model, n)
    ELSE MultiAIService_get_analysis(ai_model, backend, n)

\* round(sum / count, 1), in tenths: Python rounds a tie to the even digit.
RoundTenths(sum, count) ==
    LET q == (10 * sum) \div count
        r == (10 * sum) % count
    IN  IF 2 * r < count THEN q
        ELSE IF 2 * r > count THEN q + 1
        ELSE IF q % 2 = 0 THEN q ELSE q + 1

RECURSIVE SumScores(_)
SumScores(analyses) ==
    IF analyses = <<>> THEN 0 ELSE Head(analyses).score + SumScores(Tail(analyses))

\* The loop of analyze_stock_multi_ai over limits.ai_models: an analysis that
\* raised or is None is skipped, the others are appended.
RECURSIVE CollectAnalyses(_, _)
CollectAnalyses(ai_models, outcomes) ==
    IF ai_models = <<>> THEN <<>>
    ELSE LET ai_model == Head(ai_models)
             rest == CollectAnalyses(Tail(ai_models), outcomes)
         IN  IF outcomes[ai_model].ok
             THEN <<[ai_model |-> ai_model, score |-> outcomes[ai_model].score]>> \o rest
             ELSE rest

\* MultiAIService.analyze_stock_multi_ai: its MultiAIAnalysis, or the
\* exception of the fallback call of basic_ai_service.analyze_stock.
MultiAIAnalysis(tier, answers, fallback, debug, key) ==
    LET ai_models == get_subscription_limits(tier)
        outcomes == [m \in {ai_models[i] : i \in DOMAIN ai_models} |->
                        analyze_with_model(m, answers[m][1], answers[m][2], debug, key)]
        analyses == CollectAnalyses(ai_models, outcomes)
        basic_analysis == AIService_analyze_stock(fallback[1], fallback[2], debug, key)
    IN  [called |-> TRUE, tier |-> tier, outcomes |-> outcomes,
         result |->
            IF analyses # <<>>
            THEN [raised |-> FALSE, analyses |-> analyses,
                  average_score |-> RoundTenths(SumScores(analyses), Len(analyses))]
            ELSE IF basic_analysis.ok
            THEN [raised |-> FALSE,
                  analyses |-> <<[ai_model |-> "basic", score |-> basic_analysis.score]>>,
                  average_score |-> 10 * basic_analysis.score]
            ELSE [raised |-> TRUE, analyses |-> <<>>, average_score |-> 0]]

\* ---------------------------------------------------------- SchedulerService
\* SchedulerService.analyze_single_stock: every exception ends in return None.
analyze_single_stock(symbol, fetch, backend, n, debug, key) ==
    IF fetch # "quote" THEN None
    ELSE LET ai == AIService_analyze_stock(backend, n, debug, key)
         IN  IF ai.ok THEN StockAnalysis(symbol, ai.score) ELSE None

\* list.sort(key=average_score, reverse=True): stable, so records of equal
\* score keep the order they have in the list being sorted.
RECURSIVE InsertByScore(_, _)
InsertByScore(s, x) ==
    IF s = <<>> THEN <<x>>
    ELSE IF Head(s).average_score < x.average_score THEN <<x>> \o s
    ELSE <<Head(s)>> \o InsertByScore(Tail(s), x)

\* The list published as collected, the sort left out.
AsCollected(s) == s

RECURSIVE SortByScore(_)
SortByScore(s) ==
    IF s = <<>> THEN <<>>
    ELSE InsertByScore(SortByScore(SubSeq(s, 1, Len(s) - 1)), s[Len(s)])

\* -------------------------------------------------------------- RateLimiter
\* time.time() when the process starts: later than any retry_delay after
\* last_call_time = 0, as the wall clock is.
Epoch == 600

\* 12:00 of the first day, for a limiter met in the middle of a day.
Noon == 12 * 3600

\* retry_delay is a float of seconds: it is held in milliseconds, and the
\* products of record_call are rounded down to the millisecond.
Ms == 1000

Min(a, b) == IF a < b THEN a ELSE b
Max(a, b) == IF a > b THEN a ELSE b

\* dict.get(k, 0) and d[k] = v on a dict held as a function.
Get(d, k) == IF k \in DOMAIN d THEN d[k] ELSE 0
Put(d, k, v) == [x \in DOMAIN d \cup {k} |-> IF x = k THEN v ELSE d[x]]
Keep(d, keys) == [x \in DOMAIN d \cap keys |-> d[x]]

\* RateLimiter.__init__
RateLimiter(per_minute, per_day) ==
    [calls_per_minute |-> per_minute, calls_per_day |-> per_day,
     minute_calls |-> <<>>, day_calls |-> <<>>, last_call_time |-> 0,
     retry_delay |-> 12 * Ms]

\* can_make_call with the per-minute check made before the daily one.
can_make_call_minute_first(rl, now) ==
    LET current_minute == now \div 60
        current_day == now \div (24 * 3600)
        time_since_last == now - rl.last_call_time
    IN  IF Get(rl.minute_calls, current_minute) >= rl.calls_per_minute
        THEN <<FALSE, 60 - (now % 60)>>
        ELSE IF Get(rl.day_calls, current_day) >= rl.calls_per_day
        THEN <<FALSE, (current_day + 1) * 24 * 3600 - now>>
        ELSE IF time_since_last * Ms < rl.retry_delay
        THEN <<FALSE, (rl.retry_delay - time_since_last * Ms) \div Ms>>
        ELSE <<TRUE, 0>>

\* RateLimiter.can_make_call at time `now`: <<can_call, wait_seconds>>, the
\* wait of (True, None) written 0.
can_make_call(rl, now) ==
    LET current_minute == now \div 60
        current_day == now \div (24 * 3600)
        time_since_last == now - rl.last_call_time
    IN  IF Get(rl.day_calls, current_day) >= rl.calls_per_day
        THEN <<FALSE, (current_day + 1) * 24 * 3600 - now>>
        ELSE IF Get(rl.minute_calls, current_minute) >= rl.calls_per_minute
        THEN <<FALSE, 60 - (now % 60)>>
        ELSE IF time_since_last * Ms < rl.retry_delay
        THEN <<FALSE, (rl.retry_delay - time_since_last * Ms) \div Ms>>
        ELSE <<TRUE, 0>>

\* The delay adjusted with the floor of the success branch left out.
AdjustDelayNoFloor(retry_delay, success) ==
    IF success THEN (retry_delay * 9) \div 10
    ELSE Min(300 * Ms, (retry_delay * 15) \div 10)

\* The delay adjusted with a failure leaving it as it is.
AdjustDelayNoBackoff(retry_delay, success) ==
    IF success THEN Max(12 * Ms, (retry_delay * 9) \div 10)
    ELSE retry_delay

\* record_call, "Adjust retry delay based on success".
AdjustDelay(retry_delay, success) ==
    IF success THEN Max(12 * Ms, (retry_delay * 9) \div 10)
    ELSE Min(300 * Ms, (retry_delay * 15) \div 10)

\* RateLimiter.record_call(success) at time `now`.
record_call(rl, now, success) ==
    LET current_minute == now \div 60
        current_day == now \div (24 * 3600)
        minutes == Put(rl.minute_calls, current_minute,
                       Get(rl.minute_calls, current_minute) + 1)
        days == Put(rl.day_calls, current_day, Get(rl.day_calls, current_day) + 1)
    IN  [rl EXCEPT
           !.minute_calls = Keep(minutes, {k \in DOMAIN minutes : k > current_minute - 60}),
           !.day_calls = Keep(days, {k \in DOMAIN days : k > current_day - 7}),
           !.last_call_time = now,
           !.retry_delay = AdjustDelay(rl.retry_delay, success)]

\* A pool thread that is not inside the rate-limited wrapper.
Workers == 1..PoolThreads

Idle == [pc |-> "idle", wake |-> 0, attempt |-> 0, admitted |-> TRUE, calls |-> 0,
         records |-> 0, recorded |-> "", outcome |-> ""]

\* A pool thread that is not inside record_call.
NotRecording == [pc |-> "idle", success |-> TRUE, now |-> 0, value |-> 0, kept |-> <<>>]

\* No analyze_stock_multi_ai call yet.
NotScored ==
    [called |-> FALSE, tier |-> "", outcomes |-> <<>>,
     result |-> [raised |-> FALSE, analyses |-> <<>>, average_score |-> 0]]

\* The symbols a user may ask to track, and the requests of one user that
\* the event loop serves at a time.
StockSymbols == {"AAPL", "GOOGL", "MSFT", "TSLA", "AMZN", "NVDA"}
Coroutines == {1, 2}

\* A coroutine that is not inside add_user_stock.
NotAdding == [pc |-> "idle", symbol |-> "", current_count |-> 0]

\* No record_call yet: the last call's outcome, the delay before it, and the
\* successes in a row.
NoRecord == [outcome |-> "none", before |-> 0, streak |-> 0]

\* ------------------------------------------------------------ StockService
DataSources == {"yahoo", "alpha_vantage", "polygon"}

\* The classes exceptions.py defines.
exceptions ==
    {"StockDataException", "YahooFinanceException", "AlphaVantageException",
     "AIAnalysisException", "OpenAIException", "GroqException"}

\* The class fetch_stock_data and the _fetch_*_data functions raise for each
\* data source, by the name the code raises it under.
TypedError(source) ==
    IF source = "alpha_vantage" THEN "AlphaVantageException"
    ELSE IF source = "polygon" THEN "PolygonException"
    ELSE "YahooFinanceException"

\* API keys an admin may configure; "" is no key.
Keys == {"", "k1"}

\* What a probe of a backend, and what the first request of a fetch, may get.
BackendAnswers == {"quote", "empty", "malformed", "429", "404", "timeout", "error"}

\* StockService.__init__ under the default source: no client (a client is
\* held as the key it was created with, "" is None), and the probe of Yahoo
\* Finance that succeeded.
StockService ==
    [alpha_vantage |-> "", polygon_client |-> "",
     probe |-> [source |-> "yahoo", key |-> "", client |-> "", ok |-> TRUE]]

\* The key config returns for a source, and the client the service holds for it.
KeyOf(keys, source) ==
    IF source = "alpha_vantage" THEN keys.alpha_vantage
    ELSE IF source = "polygon" THEN keys.polygon
    ELSE ""

ClientOf(svc, source) ==
    IF source = "alpha_vantage" THEN svc.alpha_vantage
    ELSE IF source = "polygon" THEN svc.polygon_client
    ELSE ""

\* StockService._initialize_data_sources up to the probe: a client of the
\* selected source is created when its key is set; nothing else is assigned.
initialize_data_sources(svc, source, keys) ==
    IF source = "alpha_vantage" /\ keys.alpha_vantage # ""
    THEN [svc EXCEPT !.alpha_vantage = keys.alpha_vantage]
    ELSE IF source = "polygon" /\ keys.polygon # ""
    THEN [svc EXCEPT !.polygon_client = keys.polygon]
    ELSE svc

\* StockService.test_real_data_connection: its return value.  A keyed source
\* without a client object returns False before any request; otherwise the
\* request's answer decides.
test_real_data_connection(svc, source, answer) ==
    /\ source \in {"alpha_vantage", "polygon"} => ClientOf(svc, source) # ""
    /\ answer = "ok"

\* StockService._generate_mock_data: the price in cents from the base price
\* table and random.uniform(-0.05, 0.05) in thousandths, the volume from
\* random.randint(50000000, 200000000).
base_prices(symbol) ==
    IF symbol = "AAPL" THEN 180 ELSE IF symbol = "TSLA" THEN 250 ELSE 100

Variations == {-50, 50}
Volumes == {50000000, 200000000}

generate_mock_data(symbol, variation, volume) ==
    [kind |-> "mock", exc |-> "", text |-> "",
     price |-> (base_prices(symbol) * (1000 + variation)) \div 10, volume |-> volume]

\* A StockData built from the backend's answer, and a raised exception with
\* the part of its text that retry_with_backoff looks at.
Quote == [kind |-> "quote", exc |-> "", text |-> "", price |-> 1, volume |-> 0]
Raise(exc, text) == [kind |-> "raise", exc |-> exc, text |-> text, price |-> 0, volume |-> 0]

\* StockService._fetch_yahoo_data
fetch_yahoo_data(debug, answer, mock) ==
    IF answer = "quote" THEN Quote
    ELSE IF debug THEN mock
    ELSE Raise("YahooFinanceException", answer)

\* StockService._fetch_alpha_vantage_data, one invocation.
fetch_alpha_vantage_data(debug, client, answer, mock) ==
    IF client = ""
    THEN IF debug THEN mock ELSE Raise("AlphaVantageException", "not initialized")
    ELSE IF answer = "quote" THEN Quote
    ELSE IF debug THEN mock
    ELSE Raise("AlphaVantageException", answer)

\* StockService._fetch_polygon_data, one invocation.  An exception of
\* get_previous_close_agg is raised as PolygonException whatever DEBUG is,
\* unless its text says 404 / not found.
fetch_polygon_data(debug, client, answer, mock) ==
    IF client = ""
    THEN IF debug THEN mock ELSE Raise("PolygonException", "not initialized")
    ELSE IF answer = "quote" THEN Quote
    ELSE IF answer \in {"429", "timeout", "error"} THEN Raise("PolygonException", answer)
    ELSE IF debug THEN mock
    ELSE Raise("PolygonException", answer)

\* StockService._fetch_real_data on the source it read from config.
fetch_real_data(debug, source, svc, answer, mock) ==
    IF source = "alpha_vantage"
    THEN fetch_alpha_vantage_data(debug, svc.alpha_vantage, answer, mock)
    ELSE IF source = "polygon"
    THEN fetch_polygon_data(debug, svc.polygon_client, answer, mock)
    ELSE fetch_yahoo_data(debug, answer, mock)

\* retry_with_backoff: the texts it retries, and the invocations each
\* source's function is decorated with (_fetch_yahoo_data has no decorator).
is_retryable(text) == text \in {"429", "timeout"}

Attempts(source) ==
    IF source = "alpha_vantage" THEN max_retries
    ELSE IF source = "polygon" THEN polygon_max_retries
    ELSE 1

\* The except clauses of fetch_stock_data on what _fetch_real_data ended in:
\* the three typed errors are re-raised, any other exception becomes mock data
\* under DEBUG and the typed error of the source configured now otherwise.
fetch_stock_data_except(debug, source, r, mock) ==
    IF r.kind # "raise" THEN r
    ELSE IF r.exc \in {TypedError(s) : s \in DataSources} THEN r
    ELSE IF debug THEN mock
    ELSE Raise(TypedError(source), r.text)

\* No fetch_stock_data call yet.
NoFetch ==
    [pc |-> "idle", symbol |-> "", source |-> "", degraded |-> FALSE, attempt |-> 0,
     answer |-> "", result |-> Raise("", "")]

\* ----------------------------------------------------------------- routes
\* No HTTP request served yet.
NoHttp == [endpoint |-> "none", pc |-> "none", user |-> "", code |-> 0, status |-> "",
           spawned |-> FALSE, running |-> FALSE]

Users == {"anonymous", "no_stocks", "tracking"}

\* ---------------------------------------------------------- cycle threads
Unborn == [pc |-> "unborn", raised |-> FALSE, stock_symbols |-> <<>>,
           futures |-> <<>>, collected |-> {}, analysis_results |-> <<>>]

NoRequest == [pc |-> "idle", analysis |-> <<>>, errors |-> <<>>, ts |-> 0,
              candidates |-> {}]

\* SchedulerService.__init__ and the module-level objects, but for the clock
\* and the limiter.
Built ==
    /\ is_updating = FALSE
    /\ latest_analysis = <<>>
    /\ latest_errors = <<>>
    /\ last_updated = 0
    /\ executor_shutdown = FALSE
    /\ skipped = FALSE
    /\ nThreads = 0
    /\ threads = [t \in ThreadIds |-> Unborn]
    /\ reader = NoRequest
    /\ request = NoHttp
    /\ workers = [w \in Workers |-> Idle]
    /\ issued = <<>>
    /\ history = NoRecord
    /\ api_keys = [alpha_vantage |-> "", polygon |-> ""]
    /\ stock_service = StockService
    /\ fetching = NoFetch
    /\ admission = [asked |-> FALSE, can |-> TRUE, wait |-> 0, now |-> 0,
                    limiter |-> RateLimiter(calls_per_minute, calls_per_day)]
    /\ recording = [w \in Workers |-> NotRecording]
    /\ recorded = [success |-> 0, failure |-> 0]
    /\ scored = NotScored
    /\ user_stocks = [symbol \in StockSymbols |-> 0]
    /\ adding = [c \in Coroutines |-> NotAdding]

\* SchedulerService.__init__; everything but the deployment's settings.
Constructed ==
    /\ Built
    /\ clock = Epoch
    /\ rate_limiter = RateLimiter(calls_per_minute, calls_per_day)

\* main.py's startup has run: the scheduler service is set; the default data
\* source, whose connection test succeeded.
Started ==
    /\ scheduler_service = TRUE
    /\ data_source = "yahoo"
    /\ use_mock_data = FALSE

\* The default deployment: DEBUG defaults to "true", no API key is set.
Init ==
    /\ Constructed
    /\ Started
    /\ cfg \in ConfigValues
    /\ DEBUG = TRUE
    /\ api_key = "none"

\* No cycle thread is between its first statement and its exit.
Running(t) == threads[t].pc \notin {"unborn", "start", "done"}
Quiet == \A t \in ThreadIds : threads[t].pc \in {"unborn", "done"}

\* ------------------------------------------------- update_stock_analysis
\* update_stock_analysis with the guard `if self.is_updating: return` left out.
update_stock_analysis_unguarded ==
    /\ ~executor_shutdown
    /\ nThreads < MaxCycles
    /\ nThreads' = nThreads + 1
    /\ threads' = [threads EXCEPT ![nThreads + 1].pc = "start"]
    /\ skipped' = FALSE
    /\ UNCHANGED <<store, cfg, deployment, beyond, executor_shutdown, reader>>

\* update_stock_analysis (and force_update, which only calls it): return if
\* is_updating, else start a thread on _update_stock_analysis_async.  The
\* thread's first statement is a step of its own (SetUpdating), so the window
\* between this check and the flag being set is part of the model.
StartThreadUnlessUpdating ==
    /\ ~executor_shutdown
    /\ IF is_updating
       THEN /\ skipped' = TRUE
            /\ UNCHANGED <<nThreads, threads>>
       ELSE /\ nThreads < MaxCycles
            /\ nThreads' = nThreads + 1
            /\ threads' = [threads EXCEPT ![nThreads + 1].pc = "start"]
            /\ skipped' = FALSE

\* A call from the interval job, from start() or from an admin route.
update_stock_analysis ==
    /\ StartThreadUnlessUpdating
    /\ UNCHANGED <<store, cfg, deployment, beyond, executor_shutdown, reader>>

\* The interval job firing once the previous cycle has ended.
TimerTrigger ==
    /\ Quiet
    /\ update_stock_analysis

\* ------------------------------------------- _update_stock_analysis_async
\* self.is_updating = True
SetUpdating(t) ==
    /\ threads[t].pc = "start"
    /\ is_updating' = TRUE
    /\ threads' = [threads EXCEPT ![t].pc = "clear"]
    /\ UNCHANGED <<latest_analysis, latest_errors, last_updated, cfg, deployment, beyond,
                   executor_shutdown, skipped, nThreads, reader>>

\* self.latest_errors = []
ClearErrors(t) ==
    /\ threads[t].pc = "clear"
    /\ latest_errors' = <<>>
    /\ threads' = [threads EXCEPT ![t].pc = "read_config"]
    /\ UNCHANGED <<is_updating, latest_analysis, last_updated, cfg, deployment, beyond,
                   executor_shutdown, skipped, nThreads, reader>>

\* Where the driver goes once every symbol of the list has been submitted:
\* as_completed over no future ends at once.
AfterSubmit(symbols, futures) ==
    IF Len(futures) < Len(symbols) THEN "dispatch"
    ELSE IF futures = <<>> THEN "publish" ELSE "collect"

\* stock_symbols = config.get_stock_symbols()
ReadConfig(t) ==
    /\ threads[t].pc = "read_config"
    /\ threads' = [threads EXCEPT ![t] =
          IF cfg = Malformed
          THEN [@ EXCEPT !.pc = "except"]
          ELSE [@ EXCEPT !.stock_symbols = cfg, !.pc = AfterSubmit(cfg, <<>>)]]
    /\ UNCHANGED <<store, cfg, deployment, beyond, executor_shutdown, skipped, nThreads,
                   reader>>

\* One iteration of the comprehension: self.executor.submit(...) for the next
\* symbol; submit raises RuntimeError once the executor is shut down.
Submit(t) ==
    /\ threads[t].pc = "dispatch"
    /\ LET th == threads[t]
           next == th.stock_symbols[Len(th.futures) + 1]
           fs == Append(th.futures, Pending(next))
       IN  threads' = [threads EXCEPT ![t] =
              IF executor_shutdown
              THEN [th EXCEPT !.pc = "except"]
              ELSE [th EXCEPT !.futures = fs,
                              !.pc = AfterSubmit(th.stock_symbols, fs)]]
    /\ UNCHANGED <<store, cfg, deployment, beyond, executor_shutdown, skipped, nThreads,
                   reader>>

\* The future of task i of thread t completes with `result`.
Complete(t, i, result, fetch, backend) ==
    /\ i \in 1..Len(threads[t].futures)
    /\ ~threads[t].futures[i].done
    /\ ~threads[t].futures[i].hung
    /\ threads' = [threads EXCEPT ![t].futures[i] =
          [@ EXCEPT !.done = TRUE, !.result = result, !.fetch = fetch,
                    !.backend = backend]]
    /\ UNCHANGED <<store, cfg, deployment, beyond, executor_shutdown, skipped, nThreads,
                   reader>>

\* What the providers answer to one task: <<fetch outcome, backend outcome,
\* score in the backend's JSON>>.  The scoring backend is only called once
\* the quote was fetched, and only its JSON answer carries a score.
TaskInputs ==
    {<<f, "", 0>> : f \in FetchOutcomes \ {"quote"}}
       \cup {<<"quote", b, 0>> : b \in BackendOutcomes \ {"json"}}
       \cup {<<"quote", "json", n>> : n \in BackendScores}

\* A worker of the pool runs analyze_single_stock(symbol) to its end.
RunTask(t, i) ==
    /\ i \in DOMAIN threads[t].futures
    /\ \E in \in TaskInputs :
       Complete(t, i, analyze_single_stock(threads[t].futures[i].symbol, in[1],
                                           in[2], in[3], DEBUG, api_key), "", "")

\* The same step, with what the providers answered kept with the future.
RunTaskObserved(t, i) ==
    /\ i \in DOMAIN threads[t].futures
    /\ \E in \in TaskInputs :
       Complete(t, i, analyze_single_stock(threads[t].futures[i].symbol, in[1],
                                           in[2], in[3], DEBUG, api_key),
                in[1], in[2])

\* A worker task seen from the driver alone: any value of the task's return
\* type, or an exception out of future.result().
TaskReturns(t, i) ==
    /\ i \in DOMAIN threads[t].futures
    /\ \E r \in {None, TaskRaised}
             \cup {StockAnalysis(threads[t].futures[i].symbol, s) : s \in Scores} :
       Complete(t, i, r, "", "")

\* A provider call of task i never returns (the fetch and the scoring request
\* are made without a timeout): the future never completes.
TaskHangs(t, i) ==
    /\ i \in DOMAIN threads[t].futures
    /\ ~threads[t].futures[i].done
    /\ ~threads[t].futures[i].hung
    /\ threads' = [threads EXCEPT ![t].futures[i].hung = TRUE]
    /\ UNCHANGED <<store, cfg, deployment, beyond, executor_shutdown, skipped,
                   nThreads, reader>>

\* One iteration of `for future in as_completed(...)`: any finished future
\* not yet seen.
Collect(t, i) ==
    /\ threads[t].pc = "collect"
    /\ i \in 1..Len(threads[t].futures)
    /\ threads[t].futures[i].done
    /\ i \notin threads[t].collected
    /\ LET th == threads[t]
           f == th.futures[i]
           seen == th.collected \cup {i}
           pc2 == IF Cardinality(seen) = Len(th.futures) THEN "publish" ELSE "collect"
       IN  /\ threads' = [threads EXCEPT ![t] =
                 [th EXCEPT !.collected = seen, !.pc = pc2,
                            !.analysis_results =
                               IF f.result.kind = "StockAnalysis"
                               THEN Append(@, f.result) ELSE @]]
           /\ latest_errors' =
                 IF f.result.kind = "raise"
                 THEN Append(latest_errors, ApiError("general", f.symbol))
                 ELSE latest_errors
    /\ UNCHANGED <<is_updating, latest_analysis, last_updated, cfg, deployment, beyond,
                   executor_shutdown, skipped, nThreads, reader>>

\* analysis_results.sort(...); self.latest_analysis = analysis_results
Publish(t) ==
    /\ threads[t].pc = "publish"
    /\ latest_analysis' = SortByScore(threads[t].analysis_results)
    /\ threads' = [threads EXCEPT ![t].pc = "stamp"]
    /\ UNCHANGED <<is_updating, latest_errors, last_updated, cfg, deployment, beyond,
                   executor_shutdown, skipped, nThreads, reader>>

\* self.last_updated = datetime.now(): later than every earlier stamp.
Stamp(t) ==
    /\ threads[t].pc = "stamp"
    /\ last_updated' = last_updated + 1
    /\ threads' = [threads EXCEPT ![t].pc = "finally"]
    /\ UNCHANGED <<is_updating, latest_analysis, latest_errors, cfg, deployment, beyond,
                   executor_shutdown, skipped, nThreads, reader>>

\* except Exception: append the "system" error.
HandleException(t) ==
    /\ threads[t].pc = "except"
    /\ latest_errors' = Append(latest_errors, ApiError("general", "system"))
    /\ threads' = [threads EXCEPT ![t].pc = "finally", ![t].raised = TRUE]
    /\ UNCHANGED <<is_updating, latest_analysis, last_updated, cfg, deployment, beyond,
                   executor_shutdown, skipped, nThreads, reader>>

\* The driver exits: its locals are gone; a request that has started has one
\* more published snapshot it may legitimately have returned.
Exit(t) ==
    /\ threads' = [threads EXCEPT ![t] =
          [Unborn EXCEPT !.pc = "done", !.raised = threads[t].raised]]
    /\ reader' = IF reader.pc # "idle"
                 THEN [reader EXCEPT !.candidates =
                          @ \cup {<<latest_analysis, latest_errors, last_updated>>}]
                 ELSE reader

\* The flag released at the end of the try body instead of in a finally.
FinallyOnlyAfterSuccess(t) ==
    /\ threads[t].pc = "finally"
    /\ is_updating' = IF threads[t].raised THEN is_updating ELSE FALSE
    /\ Exit(t)
    /\ UNCHANGED <<latest_analysis, latest_errors, last_updated, cfg, deployment, beyond,
                   executor_shutdown, skipped, nThreads>>

\* finally: self.is_updating = False
Finally(t) ==
    /\ threads[t].pc = "finally"
    /\ is_updating' = FALSE
    /\ Exit(t)
    /\ UNCHANGED <<latest_analysis, latest_errors, last_updated, cfg, deployment, beyond,
                   executor_shutdown, skipped, nThreads>>

\* ------------------------------------------------------------ environment
\* An admin route rewrites the symbol list; the file may also be damaged.
UpdateConfig(v) ==
    /\ v # cfg
    /\ cfg' = v
    /\ UNCHANGED <<store, deployment, beyond, executor_shutdown, skipped, nThreads, threads,
                   reader>>

\* SchedulerService.stop(): scheduler.shutdown(); executor.shutdown(wait=True).
\* Cycle threads are daemon threads and may still be running.
Stop ==
    /\ ~executor_shutdown
    /\ executor_shutdown' = TRUE
    /\ UNCHANGED <<store, cfg, deployment, beyond, skipped, nThreads, threads, reader>>

\* ------------------------------------------------------------- dashboard
\* get_dashboard: three separate reads of the scheduler's fields.  The request
\* arrives between two cycles, when the fields hold the last published
\* snapshot; a cycle may start right after the first read.
ReadAnalysis ==
    /\ reader.pc = "idle"
    /\ \A t \in ThreadIds : ~Running(t)
    /\ reader' = [reader EXCEPT !.analysis = latest_analysis, !.pc = "errors",
                     !.candidates = {<<latest_analysis, latest_errors, last_updated>>}]
    /\ UNCHANGED <<store, cfg, deployment, beyond, executor_shutdown, skipped, nThreads,
                   threads>>

ReadErrors ==
    /\ reader.pc = "errors"
    /\ reader' = [reader EXCEPT !.errors = latest_errors, !.pc = "ts"]
    /\ UNCHANGED <<store, cfg, deployment, beyond, executor_shutdown, skipped, nThreads,
                   threads>>

ReadLastUpdated ==
    /\ reader.pc = "ts"
    /\ reader' = [reader EXCEPT !.ts = last_updated, !.pc = "done"]
    /\ UNCHANGED <<store, cfg, deployment, beyond, executor_shutdown, skipped, nThreads,
                   threads>>

\* ------------------------------------------------- the rate-limited wrapper
\* rate_limiter.record_call(success) now, and what it was called with.
Recorded(success) ==
    /\ rate_limiter' = record_call(rate_limiter, clock, success)
    /\ history' = [outcome |-> IF success THEN "success" ELSE "failure",
                   before |-> rate_limiter.retry_delay,
                   streak |-> IF success THEN history.streak + 1 ELSE 0]

\* record_call called on the limiter, whatever can_make_call says.
RecordCall(success) ==
    /\ Get(rate_limiter.day_calls, clock \div (24 * 3600)) < MaxRecords
    /\ Recorded(success)
    /\ UNCHANGED <<store, cfg, deployment, selection, api, clock, workers, issued,
                   executor_shutdown, skipped, nThreads, threads, reader, elsewhere>>

RECURSIVE Total(_)
Total(d) ==
    IF DOMAIN d = {} THEN 0
    ELSE LET k == CHOOSE x \in DOMAIN d : TRUE
         IN  d[k] + Total(Keep(d, DOMAIN d \ {k}))

pipeline == <<store, cfg, deployment, selection, api, executor_shutdown, skipped,
              nThreads, threads, reader>>

AllButGovernor == <<pipeline, elsewhere>>

\* wrapper: rate_limiter.wait_if_needed().  One can_make_call; when it says
\* no and the wait is not 0 the thread sleeps for the wait, and in every case
\* it then goes on to the call.
wait_if_needed(w) ==
    /\ workers[w].pc = "idle"
    /\ Total(issued) < MaxCalls
    /\ LET admit == can_make_call(rate_limiter, clock)
       IN  workers' = [workers EXCEPT ![w] =
              IF ~admit[1] /\ admit[2] # 0
              THEN [Idle EXCEPT !.pc = "sleep", !.wake = clock + admit[2]]
              ELSE [Idle EXCEPT !.pc = "call"]]
    /\ UNCHANGED <<AllButGovernor, clock, rate_limiter, issued, history>>

\* time.sleep returns: in wait_if_needed and in retry_with_backoff the thread
\* goes on to the call, after the wrapper's sleep(retry_delay) it re-raises.
WakeUp(w) ==
    /\ workers[w].pc \in {"sleep", "backoff", "penalty"}
    /\ clock >= workers[w].wake
    /\ workers' = [workers EXCEPT ![w].pc = IF @ = "penalty" THEN "idle" ELSE "call"]
    /\ UNCHANGED <<AllButGovernor, clock, rate_limiter, issued, history>>

\* func(*args, **kwargs): the request goes out to the provider.  `admitted`
\* keeps what can_make_call says at this instant.
IssueCall(w) ==
    /\ workers[w].pc = "call"
    /\ issued' = Put(issued, clock \div 60, Get(issued, clock \div 60) + 1)
    /\ workers' = [workers EXCEPT ![w].pc = "calling", ![w].calls = @ + 1,
                       ![w].admitted = can_make_call(rate_limiter, clock)[1]]
    /\ UNCHANGED <<AllButGovernor, clock, rate_limiter, history>>

\* What the decorated function does, as the decorators see it: it returns, or
\* raises with a rate-limit text ("429"), with another retryable text
\* ("timeout"), or with any other text.
CallOutcomes == {"returned", "429", "timeout", "error"}

\* retry_with_backoff retrying every error that is not the last attempt's.
should_retry_any_error(attempt, outcome) ==
    attempt # max_retries - 1 /\ outcome # "returned"

\* retry_with_backoff: whether the error `outcome` of attempt `attempt`
\* (counted from 0) is followed by another attempt, and the sleep before it.
should_retry(attempt, outcome) ==
    attempt # max_retries - 1 /\ outcome \in {"429", "timeout"}

backoff_delay(attempt) == base_delay * (2 ^ attempt)

\* The call comes back.  retry_with_backoff returns the value, retries a
\* retryable error after base_delay * 2 ** attempt unless it was the last
\* attempt, and re-raises otherwise; with_rate_limiting records a success for
\* a value, records a failure and sleeps retry_delay for a rate-limit error,
\* and only re-raises any other error.
CallReturns(w, outcome) ==
    /\ workers[w].pc = "calling"
    /\ LET wk == workers[w]
           retry == should_retry(wk.attempt, outcome)
       IN  IF outcome = "returned"
           THEN /\ Recorded(TRUE)
                /\ workers' = [workers EXCEPT ![w] =
                      [wk EXCEPT !.pc = "idle", !.records = @ + 1,
                                 !.recorded = "success", !.outcome = outcome]]
           ELSE IF retry
           THEN /\ workers' = [workers EXCEPT ![w] =
                      [wk EXCEPT !.pc = "backoff", !.attempt = @ + 1, !.outcome = outcome,
                                 !.wake = clock + backoff_delay(wk.attempt)]]
                /\ UNCHANGED <<rate_limiter, history>>
           ELSE IF outcome = "429"
           THEN /\ Recorded(FALSE)
                /\ workers' = [workers EXCEPT ![w] =
                      [wk EXCEPT !.pc = "penalty", !.records = @ + 1,
                                 !.recorded = "failure", !.outcome = outcome,
                                 !.wake = clock + (rate_limiter'.retry_delay \div Ms)]]
           ELSE /\ workers' = [workers EXCEPT ![w] =
                      [wk EXCEPT !.pc = "idle", !.outcome = outcome]]
                /\ UNCHANGED <<rate_limiter, history>>
    /\ UNCHANGED <<AllButGovernor, clock, issued>>

\* Time passes until the next sleeping thread is due.  Provider calls are
\* taken to come back at once: no thread is inside one while time passes.
Sleepers == {w \in Workers : workers[w].pc \in {"sleep", "backoff", "penalty"}}

Tick ==
    /\ Sleepers # {}
    /\ \A w \in Workers : workers[w].pc \in {"idle", "sleep", "backoff", "penalty"}
    /\ \E w \in Sleepers :
          /\ \A v \in Sleepers : workers[w].wake <= workers[v].wake
          /\ clock < workers[w].wake
          /\ workers[w].wake <= Epoch + MaxClock
          /\ clock' = workers[w].wake
    /\ UNCHANGED <<AllButGovernor, rate_limiter, workers, issued, history>>

\* ----------------------------------------------------------- HTTP routes
\* The handlers are coroutines without an await between their statements, so
\* the event loop serves one request at a time; cycle threads run beside it.
Serving == request.pc = "force"

Responded(endpoint, user, code, status, spawned, running) ==
    [endpoint |-> endpoint, pc |-> "done", user |-> user, code |-> code,
     status |-> status, spawned |-> spawned, running |-> running]

\* POST /refresh up to its test of is_update_in_progress(): 500 out of
\* get_scheduler_service, "in_progress", or on to force_update.
refresh_dashboard ==
    /\ ~Serving
    /\ LET running == \E t \in ThreadIds : Running(t)
       IN  request' =
              IF ~scheduler_service
              THEN Responded("refresh", "", 500, "", FALSE, running)
              ELSE IF is_updating
              THEN Responded("refresh", "", 200, "in_progress", FALSE, running)
              ELSE [Responded("refresh", "", 0, "", FALSE, running) EXCEPT !.pc = "force"]
    /\ UNCHANGED <<store, cfg, deployment, selection, scheduler_service, governor,
                   executor_shutdown, skipped, nThreads, threads, reader, elsewhere>>

\* POST /refresh from service.force_update() on: update_stock_analysis tests
\* is_updating once more, then the handler answers "started".
refresh_dashboard_force_update ==
    /\ Serving
    /\ StartThreadUnlessUpdating
    /\ request' = [request EXCEPT !.pc = "done", !.code = 200, !.status = "started",
                                  !.spawned = ~is_updating]
    /\ UNCHANGED <<store, cfg, deployment, selection, scheduler_service, governor,
                   executor_shutdown, reader, elsewhere>>

\* GET /status
get_status ==
    /\ ~Serving
    /\ request' = Responded("status", "", IF scheduler_service THEN 200 ELSE 500,
                            "", FALSE, FALSE)
    /\ UNCHANGED <<store, cfg, deployment, selection, scheduler_service, governor,
                   executor_shutdown, skipped, nThreads, threads, reader, elsewhere>>

\* The status GET /dashboard answers with.  An anonymous user gets the sample
\* data and a user without tracked stocks an empty dashboard; for a user with
\* tracked stocks the HTTPException of get_scheduler_service is raised inside
\* the inner try, whose `except Exception` returns the "system_error"
\* dashboard.
get_dashboard_code(user, service) ==
    LET inner == IF user = "tracking" /\ ~service THEN "HTTPException" ELSE "returned"
        caught == inner = "HTTPException"
    IN  IF inner = "returned" \/ caught THEN 200 ELSE 500

\* GET /dashboard, as far as its status goes.
get_dashboard(user) ==
    /\ ~Serving
    /\ request' = Responded("dashboard", user,
                            get_dashboard_code(user, scheduler_service), "", FALSE, FALSE)
    /\ UNCHANGED <<store, cfg, deployment, selection, scheduler_service, governor,
                   executor_shutdown, skipped, nThreads, threads, reader, elsewhere>>

\* ------------------------------------------------------ provider selection
\* Where StockService.fetch_stock_data sends a fetch made now: it tests
\* self.use_mock_data and _fetch_real_data reads config.get_data_source(),
\* both at the time of the call.
Provider == IF use_mock_data THEN "mock" ELSE data_source

\* A worker of the pool runs analyze_single_stock(symbol) to its end; the
\* provider its fetch went to is kept with the future.
RunTaskOnProvider(t, i) ==
    /\ i \in DOMAIN threads[t].futures
    /\ ~threads[t].futures[i].done
    /\ \E in \in TaskInputs :
          threads' = [threads EXCEPT ![t].futures[i] =
             [@ EXCEPT !.done = TRUE, !.provider = Provider,
                       !.result = analyze_single_stock(@.symbol, in[1], in[2], in[3],
                                                       DEBUG, api_key)]]
    /\ UNCHANGED <<store, cfg, deployment, beyond, executor_shutdown, skipped,
                   nThreads, reader>>

\* PUT /admin/config with a data_source: config.update_data_source, then
\* refresh_stock_service (whose connection test sets use_mock_data), then
\* force_update.
update_config(source, connected) ==
    /\ scheduler_service
    /\ source # data_source
    /\ data_source' = source
    /\ use_mock_data' = ~connected
    /\ StartThreadUnlessUpdating
    /\ UNCHANGED <<store, cfg, deployment, api, governor, executor_shutdown, reader,
                   elsewhere>>

\* ------------------------------------------------------------ can_make_call
\* rate_limiter.can_make_call() now: no assignment to the limiter and no
\* sleep; what it saw and what it returned are kept.
Admit ==
    /\ LET r == can_make_call(rate_limiter, clock)
       IN  admission' = [asked |-> TRUE, can |-> r[1], wait |-> r[2], now |-> clock,
                         limiter |-> rate_limiter]
    /\ UNCHANGED <<pipeline, governor, adapter, recording, recorded, scored,
                   tracking>>

\* Time passes.
Elapse(seconds) ==
    /\ clock + seconds <= Noon + MaxClock
    /\ clock' = clock + seconds
    /\ UNCHANGED <<AllButGovernor, rate_limiter, workers, issued, history>>

\* ------------------------------------------- record_call, thread by thread
\* A pool thread enters rate_limiter.record_call(success): time.time().
\* Nothing in RateLimiter or in with_rate_limiting takes a lock.
record_call_enter(w, success) ==
    /\ recording[w].pc = "idle"
    /\ recorded.success + recorded.failure
          + Cardinality({v \in Workers : recording[v].pc # "idle"}) < MaxCalls
    /\ recording' = [recording EXCEPT ![w] =
          [NotRecording EXCEPT !.pc = "get_minute", !.success = success, !.now = clock]]
    /\ UNCHANGED <<pipeline, governor, adapter, admission, recorded, scored, tracking>>

\* The thread's next statement of record_call; a statement that reads a field
\* of the limiter and assigns to it is a read and then a write, between
\* which the other threads run.
record_call_step(w) ==
    LET th == recording[w]
        rl == rate_limiter
        current_minute == th.now \div 60
        current_day == th.now \div (24 * 3600)
        Read(value, pc) ==
            /\ recording' = [recording EXCEPT ![w].value = value, ![w].pc = pc]
            /\ UNCHANGED <<rate_limiter, recorded>>
        Filter(kept, pc) ==
            /\ recording' = [recording EXCEPT ![w].kept = kept, ![w].pc = pc]
            /\ UNCHANGED <<rate_limiter, recorded>>
        Write(limiter_after, pc) ==
            /\ rate_limiter' = limiter_after
            /\ recording' = [recording EXCEPT ![w].pc = pc, ![w].value = 0,
                                              ![w].kept = <<>>]
            /\ UNCHANGED recorded
    IN  /\ th.pc # "idle"
        /\ CASE th.pc = "get_minute" ->
                   Read(Get(rl.minute_calls, current_minute) + 1, "set_minute")
             [] th.pc = "set_minute" ->
                   Write([rl EXCEPT !.minute_calls = Put(@, current_minute, th.value)],
                         "get_day")
             [] th.pc = "get_day" ->
                   Read(Get(rl.day_calls, current_day) + 1, "set_day")
             [] th.pc = "set_day" ->
                   Write([rl EXCEPT !.day_calls = Put(@, current_day, th.value)],
                         "set_last")
             [] th.pc = "set_last" ->
                   Write([rl EXCEPT !.last_call_time = th.now], "get_delay")
             [] th.pc = "get_delay" ->
                   Read(AdjustDelay(rl.retry_delay, th.success), "set_delay")
             [] th.pc = "set_delay" ->
                   Write([rl EXCEPT !.retry_delay = th.value], "filter_minute")
             [] th.pc = "filter_minute" ->
                   Filter(Keep(rl.minute_calls,
                               {k \in DOMAIN rl.minute_calls : k > current_minute - 60}),
                          "assign_minute")
             [] th.pc = "assign_minute" ->
                   Write([rl EXCEPT !.minute_calls = th.kept], "filter_day")
             [] th.pc = "filter_day" ->
                   Filter(Keep(rl.day_calls,
                               {k \in DOMAIN rl.day_calls : k > current_day - 7}),
                          "assign_day")
             [] th.pc = "assign_day" ->
                   /\ rate_limiter' = [rl EXCEPT !.day_calls = th.kept]
                   /\ recording' = [recording EXCEPT ![w] = NotRecording]
                   /\ recorded' = IF th.success
                                  THEN [recorded EXCEPT !.success = @ + 1]
                                  ELSE [recorded EXCEPT !.failure = @ + 1]
        /\ UNCHANGED <<pipeline, clock, workers, issued, history, adapter, admission,
                       scored, tracking>>

\* ------------------------------------------------------ multi-persona scoring
\* One call of analyze_stock_multi_ai(stock_data, tier): each request to the
\* scoring backend gets its own answer.
analyze_stock_multi_ai(tier, answers, fallback) ==
    /\ ~scored.called
    /\ scored' = MultiAIAnalysis(tier, answers, fallback, DEBUG, api_key)
    /\ UNCHANGED <<pipeline, governor, adapter, limiter, tracking>>

\* ------------------------------------------------------- UserStockService
\* add_user_stock(user_id, symbol) up to its first await's result: find_one
\* on (user_id, symbol); a document found returns False.
add_user_stock(c, symbol) ==
    /\ adding[c].pc = "idle"
    /\ adding' = [adding EXCEPT ![c] =
          IF user_stocks[symbol] > 0 THEN NotAdding
          ELSE [NotAdding EXCEPT !.pc = "count", !.symbol = symbol]]
    /\ UNCHANGED <<pipeline, governor, adapter, limiter, scored, user_stocks>>

\* current_count = await count_documents({"user_id": user_id})
count_documents(c) ==
    /\ adding[c].pc = "count"
    /\ adding' = [adding EXCEPT ![c].current_count = Total(user_stocks),
                                ![c].pc = "get_user"]
    /\ UNCHANGED <<pipeline, governor, adapter, limiter, scored, user_stocks>>

\* user = await get_user_by_id(user_id), then the test of the limit.
check_limit(c) ==
    /\ adding[c].pc = "get_user"
    /\ adding' = [adding EXCEPT ![c] =
          IF @.current_count >= max_stocks THEN NotAdding
          ELSE [@ EXCEPT !.pc = "insert"]]
    /\ UNCHANGED <<pipeline, governor, adapter, limiter, scored, user_stocks>>

\* await insert_one(user_stock): the unique index on (user_id, symbol) turns
\* a second document of the symbol into a DuplicateKeyError, which the
\* `except Exception` answers with False.
insert_one(c) ==
    /\ adding[c].pc = "insert"
    /\ user_stocks' = IF user_stocks[adding[c].symbol] > 0 THEN user_stocks
                      ELSE [user_stocks EXCEPT ![adding[c].symbol] = @ + 1]
    /\ adding' = [adding EXCEPT ![c] = NotAdding]
    /\ UNCHANGED <<pipeline, governor, adapter, limiter, scored>>

\* remove_user_stock(user_id, symbol): one delete_one.
remove_user_stock(symbol) ==
    /\ user_stocks[symbol] > 0
    /\ user_stocks' = [user_stocks EXCEPT ![symbol] = @ - 1]
    /\ UNCHANGED <<pipeline, governor, adapter, limiter, scored, adding>>

\* ------------------------------------------------------- the quote adapter
\* config.update_data_source / update_alpha_vantage_api_key /
\* update_polygon_api_key with the values given (a value equal to the stored
\* one changes nothing), then StockService.refresh_data_sources(), whose probe
\* gets `answer`.
refresh_data_sources(source, keys, answer) ==
    /\ <<source, keys>> # <<data_source, api_keys>>
    /\ data_source' = source
    /\ api_keys' = keys
    /\ LET svc == initialize_data_sources(stock_service, source, keys)
           ok == test_real_data_connection(svc, source, answer)
       IN  /\ stock_service' =
                 [svc EXCEPT !.probe = [source |-> source, key |-> KeyOf(keys, source),
                                        client |-> ClientOf(svc, source), ok |-> ok]]
           /\ use_mock_data' = ~ok
    /\ UNCHANGED <<store, cfg, deployment, api, governor, executor_shutdown, skipped,
                   nThreads, threads, reader, fetching, limiter, scored, tracking>>

\* StockService.fetch_stock_data(symbol) up to the first invocation of the
\* source's function: the degraded adapter answers at once, the live one goes
\* to _fetch_real_data, which reads the data source.
fetch_stock_data(symbol, variation, volume) ==
    /\ fetching.pc # "invoke"
    /\ LET call == [NoFetch EXCEPT !.symbol = symbol, !.source = data_source,
                                   !.degraded = use_mock_data]
       IN  fetching' =
              IF ~use_mock_data THEN [call EXCEPT !.pc = "invoke"]
              ELSE [call EXCEPT !.pc = "done", !.result =
                       IF DEBUG THEN generate_mock_data(symbol, variation, volume)
                       ELSE Raise(TypedError(data_source), "connection failed")]
    /\ UNCHANGED <<store, cfg, deployment, selection, api, governor, executor_shutdown,
                   skipped, nThreads, threads, reader, api_keys, stock_service,
                   limiter, scored, tracking>>

\* One invocation of the source's function under retry_with_backoff, the
\* backend answering `answer`: a retryable error that is not the last
\* attempt's is retried, anything else ends the call in fetch_stock_data.
Invoke(answer, variation, volume) ==
    /\ fetching.pc = "invoke"
    /\ LET mock == generate_mock_data(fetching.symbol, variation, volume)
           r == fetch_real_data(DEBUG, fetching.source, stock_service, answer, mock)
           again == /\ r.kind = "raise"
                    /\ is_retryable(r.text)
                    /\ fetching.attempt < Attempts(fetching.source) - 1
       IN  fetching' =
              IF again THEN [fetching EXCEPT !.attempt = @ + 1, !.answer = answer]
              ELSE [fetching EXCEPT !.pc = "done", !.answer = answer,
                       !.result = fetch_stock_data_except(DEBUG, data_source, r, mock)]
    /\ UNCHANGED <<store, cfg, deployment, selection, api, governor, executor_shutdown,
                   skipped, nThreads, threads, reader, api_keys, stock_service,
                   limiter, scored, tracking>>

\* ---------------------------------------------------------- specifications
\* The cycle driver without its worker tasks' steps.
Cycle ==
    \/ \E t \in ThreadIds : SetUpdating(t)
    \/ \E t \in ThreadIds : ClearErrors(t)
    \/ \E t \in ThreadIds : ReadConfig(t)
    \/ \E t \in ThreadIds : Submit(t)
    \/ \E t \in ThreadIds : \E i \in TaskIds : Collect(t, i)
    \/ \E t \in ThreadIds : Publish(t)
    \/ \E t \in ThreadIds : Stamp(t)
    \/ \E t \in ThreadIds : HandleException(t)
    \/ \E t \in ThreadIds : Finally(t)

Environment ==
    \/ \E v \in ConfigValues : UpdateConfig(v)
    \/ Stop

\* Triggers from any thread at any time, the default deployment.
Next ==
    \/ update_stock_analysis
    \/ Cycle
    \/ \E t \in ThreadIds : \E i \in TaskIds : RunTask(t, i)
    \/ Environment

Spec == Init /\ [][Next]_vars

\* Every deployment: DEBUG on or off, no key, a Groq key or an OpenAI key.
InitAnyDeployment ==
    /\ Constructed
    /\ Started
    /\ cfg \in ConfigValues
    /\ DEBUG \in BOOLEAN
    /\ api_key \in {"none", "groq", "openai"}

\* Timer-driven cycles, one after the other, with what the providers
\* answered to each task kept for inspection.
NextTask ==
    \/ TimerTrigger
    \/ Cycle
    \/ \E t \in ThreadIds : \E i \in TaskIds : RunTaskObserved(t, i)
    \/ Environment

TaskSpec == InitAnyDeployment /\ [][NextTask]_vars

\* The driver over worker tasks that may return any value of their type, in
\* timer-driven cycles.  What a cycle publishes is computed from its own
\* locals alone, which no other thread can reach.
NextDriver ==
    \/ TimerTrigger
    \/ Cycle
    \/ \E t \in ThreadIds : \E i \in TaskIds : TaskReturns(t, i)
    \/ Environment

DriverSpec == Init /\ [][NextDriver]_vars

\* Timer-driven cycles and one dashboard request.
NextReader ==
    \/ TimerTrigger
    \/ Cycle
    \/ \E t \in ThreadIds : \E i \in TaskIds : RunTask(t, i)
    \/ Environment
    \/ ReadAnalysis
    \/ ReadErrors
    \/ ReadLastUpdated

ReaderSpec == Init /\ [][NextReader]_vars

\* Timer-driven cycles while an admin changes the data source.
NextProvider ==
    \/ TimerTrigger
    \/ Cycle
    \/ \E t \in ThreadIds : \E i \in TaskIds : RunTaskOnProvider(t, i)
    \/ \E source \in DataSources : \E connected \in BOOLEAN :
          update_config(source, connected)

ProviderSpec == Init /\ [][NextProvider]_vars

\* The tasks of the pool.
Tasks == \E t \in ThreadIds : \E i \in TaskIds : RunTask(t, i)

\* The routes beside the cycles, with the scheduler service set or not.  No
\* cycle is started unless there is a scheduler to start it.
InitApi ==
    /\ Constructed
    /\ scheduler_service \in BOOLEAN
    /\ data_source = "yahoo"
    /\ use_mock_data = FALSE
    /\ cfg \in ConfigValues
    /\ DEBUG = TRUE
    /\ api_key = "none"

ServiceTrigger ==
    /\ scheduler_service
    /\ update_stock_analysis

NextApi ==
    \/ ServiceTrigger
    \/ Cycle
    \/ Tasks
    \/ refresh_dashboard
    \/ refresh_dashboard_force_update
    \/ get_status
    \/ \E user \in Users : get_dashboard(user)

ApiSpec == InitApi /\ [][NextApi]_vars

\* The limiter as constructed; the symbol list plays no part.
InitGovernor ==
    /\ Init
    /\ cfg = LongestList

\* One RateLimiter and the calls of record_call made on it.
NextDelay == \E success \in BOOLEAN : RecordCall(success)

DelaySpec == InitGovernor /\ [][NextDelay]_vars

\* The pool's threads going through the rate-limited, retried fetch.
NextGovernor ==
    \/ \E w \in Workers : wait_if_needed(w)
    \/ \E w \in Workers : WakeUp(w)
    \/ \E w \in Workers : IssueCall(w)
    \/ \E w \in Workers : \E outcome \in CallOutcomes : CallReturns(w, outcome)
    \/ Tick

GovernorSpec == InitGovernor /\ [][NextGovernor]_vars

\* Timer-driven cycles whose tasks may hang.  The driver thread and the pool
\* threads are scheduled by the operating system, so each keeps taking its
\* next step; a task that hung takes none.
NextHang ==
    \/ TimerTrigger
    \/ Cycle
    \/ Tasks
    \/ \E t \in ThreadIds : \E i \in TaskIds : TaskHangs(t, i)
    \/ Environment

HangSpec == Init /\ [][NextHang]_vars /\ WF_vars(Cycle) /\ WF_vars(Tasks)

\* The adapter of any deployment, as constructed under the default source.
InitAdapter ==
    /\ Constructed
    /\ Started
    /\ cfg = LongestList
    /\ DEBUG \in BOOLEAN
    /\ api_key = "none"

\* Fetches while an admin changes the source and the keys.
NextAdapter ==
    \/ \E source \in DataSources : \E av \in Keys : \E pg \in Keys :
       \E answer \in {"ok", "fail"} :
          refresh_data_sources(source, [alpha_vantage |-> av, polygon |-> pg], answer)
    \/ \E symbol \in {"AAPL", "ZZZZ"} : \E variation \in Variations :
       \E volume \in Volumes : fetch_stock_data(symbol, variation, volume)
    \/ \E answer \in BackendAnswers : \E variation \in Variations :
       \E volume \in Volumes : Invoke(answer, variation, volume)

AdapterSpec == InitAdapter /\ [][NextAdapter]_vars

\* A limiter in the middle of a day: its last call `gap` seconds ago, `c`
\* calls recorded in that call's minute and `d` in the day, the delay floor,
\* one failure above it, or the ceiling.
InitAdmit ==
    /\ Built
    /\ Started
    /\ cfg = LongestList
    /\ DEBUG = TRUE
    /\ api_key = "none"
    /\ clock \in {Noon, Noon + 20}
    /\ \E gap \in {0, 5, 20, 400} : \E c \in {1, calls_per_minute - 1, calls_per_minute} :
       \E d \in {c, calls_per_day - 1, calls_per_day} :
       \E delay \in {12 * Ms, 18 * Ms, 300 * Ms} :
          rate_limiter =
             [RateLimiter(calls_per_minute, calls_per_day) EXCEPT
                !.last_call_time = clock - gap,
                !.minute_calls = Put(<<>>, (clock - gap) \div 60, c),
                !.day_calls = Put(<<>>, clock \div (24 * 3600), d),
                !.retry_delay = delay]

\* can_make_call asked of the limiter as time passes.
NextAdmit ==
    \/ Admit
    \/ \E seconds \in {1, 7} : Elapse(seconds)

AdmitSpec == InitAdmit /\ [][NextAdmit]_vars

\* The pool's threads in record_call on one limiter, in one minute.
NextRecord ==
    \/ \E w \in Workers : \E success \in BOOLEAN : record_call_enter(w, success)
    \/ \E w \in Workers : record_call_step(w)

RecordSpec == InitGovernor /\ [][NextRecord]_vars

\* One thread going through the rate-limited, retried fetch again and again:
\* retry_with_backoff keeps its attempt count in the call's own frame.
NextRetry ==
    \/ wait_if_needed(1)
    \/ WakeUp(1)
    \/ IssueCall(1)
    \/ \E outcome \in CallOutcomes : CallReturns(1, outcome)
    \/ Tick

RetrySpec == InitGovernor /\ [][NextRetry]_vars

\* One multi-persona scoring call in any deployment.
NextScoring ==
    \E tier \in {"free", "pro", "expert"} :
    \E answers \in [{AIModelTypes[i] : i \in DOMAIN AIModelTypes} -> PersonaAnswers] :
    \E fallback \in PersonaAnswers :
       analyze_stock_multi_ai(tier, answers, fallback)

ScoringSpec == InitAnyDeployment /\ [][NextScoring]_vars

\* The add and remove requests of one user, served by the event loop.
NextTracking ==
    \/ \E c \in Coroutines : \E symbol \in StockSymbols : add_user_stock(c, symbol)
    \/ \E c \in Coroutines : count_documents(c)
    \/ \E c \in Coroutines : check_limit(c)
    \/ \E c \in Coroutines : insert_one(c)
    \/ \E symbol \in StockSymbols : remove_user_stock(symbol)

TrackingSpec == InitGovernor /\ [][NextTracking]_vars

\* ------------------------------------------------------------------ claims
Occurrences(seq, symbol) ==
    Cardinality({i \in DOMAIN seq : seq[i].symbol = symbol})

IndexOf(seq, x) == CHOOSE i \in DOMAIN seq : seq[i] = x

\* The driver of thread t is past its last statement of the try body.
Completed(t) == threads[t].pc = "finally" /\ ~threads[t].raised

\* C1: at most one refresh cycle is executing at any time, whatever the
\* interleaving of the triggers.
C1_AtMostOneCycleRunning ==
    Cardinality({t \in ThreadIds : Running(t)}) <= 1

\* C2: a trigger arriving while is_updating is true starts no thread and
\* changes none of latest_analysis, last_updated, latest_errors, is_updating
\* or any cycle's tasks; and a cycle whose dispatch is done has exactly one
\* future per symbol of the list it read, in that order.
C2_TriggerWhileUpdatingIsNoOp ==
    /\ [][is_updating =>
            /\ nThreads' = nThreads
            /\ \A t \in ThreadIds :
                  threads[t].pc = "unborn" => threads'[t].pc = "unborn"]_vars
    /\ [][(~skipped /\ skipped') => UNCHANGED <<store, threads, nThreads>>]_vars
    /\ [](\A t \in ThreadIds :
            threads[t].pc \in {"collect", "publish", "stamp"} =>
               /\ Len(threads[t].futures) = Len(threads[t].stock_symbols)
               /\ \A i \in DOMAIN threads[t].futures :
                     threads[t].futures[i].symbol = threads[t].stock_symbols[i])

C2_Witness ==
    /\ skipped
    /\ is_updating
    /\ \E t \in ThreadIds :
          threads[t].pc = "collect" /\ Len(threads[t].futures) = 2

\* C3: whenever no cycle is executing, also after a cycle that raised,
\* is_updating is false.
C3_FlagReleasedAtExit ==
    (\A t \in ThreadIds : ~Running(t)) => ~is_updating

C3_Witness ==
    /\ \E t, u \in ThreadIds :
          /\ threads[t].pc = "done" /\ threads[t].raised
          /\ threads[u].pc = "start"
    /\ \A t \in ThreadIds : ~Running(t)
    /\ ~is_updating

\* C4: after a completed cycle every symbol of the list the cycle read is
\* exactly once in the snapshot, as a record or as an error.
C4_EverySymbolExactlyOnce ==
    \A t \in ThreadIds : Completed(t) =>
       \A i \in DOMAIN threads[t].stock_symbols :
          LET sym == threads[t].stock_symbols[i]
          IN  Occurrences(latest_analysis, sym) + Occurrences(latest_errors, sym) = 1

\* C5: a request that read the three fields got the three values of one
\* published snapshot: the one held when it started, or one published by a
\* cycle that has exited since.
C5_ReaderSeesOneSnapshot ==
    (reader.pc = "done" /\ Quiet) =>
       <<reader.analysis, reader.errors, reader.ts>> \in reader.candidates

\* C6: a symbol whose quote was fetched and whose scoring backend answered
\* with a JSON score has a record in the list the cycle published.
C6_ScoredSymbolIsPublished ==
    \A t \in ThreadIds : (Completed(t) /\ api_key # "none") =>
       \A i \in DOMAIN threads[t].futures :
          LET f == threads[t].futures[i]
          IN  (f.fetch = "quote" /\ f.backend = "json") =>
                 Occurrences(latest_analysis, f.symbol) >= 1

\* C7: a quote-source error leaves an error of kind stock_data for the
\* symbol, a scoring-backend error one of kind ai_analysis, any other
\* exception one of kind general.
HasError(type, symbol) ==
    \E k \in DOMAIN latest_errors : latest_errors[k] = ApiError(type, symbol)

C7_ErrorKindRecorded ==
    \A t \in ThreadIds : Completed(t) =>
       \A i \in DOMAIN threads[t].futures :
          LET f == threads[t].futures[i]
          IN  /\ f.fetch = "StockDataException" => HasError("stock_data", f.symbol)
              /\ (f.fetch = "quote" /\ f.backend = "error" /\ ~DEBUG
                    /\ api_key # "none") => HasError("ai_analysis", f.symbol)
              /\ f.fetch = "Exception" => HasError("general", f.symbol)

\* C8: the published ranked list is sorted by average_score, highest first.
C8_RankedListSorted ==
    \A i, j \in DOMAIN latest_analysis :
       i < j => latest_analysis[i].average_score >= latest_analysis[j].average_score

C8_Witness ==
    /\ Len(latest_analysis) = 2
    /\ latest_analysis[1].average_score > latest_analysis[2].average_score
    /\ \E t \in ThreadIds :
          /\ threads[t].pc = "stamp"
          /\ Len(threads[t].analysis_results) = 2
          /\ threads[t].analysis_results[1].average_score
                < threads[t].analysis_results[2].average_score

C10_FailedCycleStillPublishes ==
    \A t \in ThreadIds :
       (threads[t].pc = "done" /\ threads[t].raised /\ nThreads = 1) =>
          /\ latest_errors = <<ApiError("general", "system")>>
          /\ last_updated > 0

\* C11: all tasks of one cycle fetch from the provider selected when the
\* cycle started, so any two finished tasks of a cycle used the same one,
\* whatever config change was made while the cycle was running.
C11_TasksUseSelectionOfCycleStart ==
    \A t \in ThreadIds :
       \A i, j \in DOMAIN threads[t].futures :
          (threads[t].futures[i].done /\ threads[t].futures[j].done) =>
             threads[t].futures[i].provider = threads[t].futures[j].provider

\* C12: a cycle waiting for its tasks always goes on to its exit, also when
\* one of its tasks never completes.
C12_HungTaskDoesNotBlockCycle ==
    \A t \in ThreadIds : (threads[t].pc = "collect") ~> (threads[t].pc = "done")

\* C13: POST /refresh answers "started" only when the call started a cycle
\* thread, and answers "in_progress" when a cycle was running as it arrived.
C13_RefreshAnswersOrchestratorState ==
    (request.endpoint = "refresh" /\ request.pc = "done" /\ request.code = 200) =>
       /\ request.status = "started" => request.spawned
       /\ request.running => request.status = "in_progress"

\* C14: GET /dashboard does not answer from the state no cycle has published
\* to: when it answers, its timestamp is that of a published snapshot or a
\* cycle has at least run to its end.
C14_ColdDashboardRunsCycleFirst ==
    reader.pc = "done" =>
       \/ reader.ts > 0
       \/ \E t \in ThreadIds : threads[t].pc = "done"

\* C15: /dashboard (for a user whose stocks are read from the scheduler),
\* /refresh and /status answer 5xx exactly when no scheduler service is set.
C15_ServerErrorIffNoScheduler ==
    (request.pc = "done" /\ (request.endpoint = "dashboard" => request.user = "tracking"))
       => (request.code >= 500 <=> ~scheduler_service)

\* C16: whatever calls of record_call were made, retry_delay is between 12
\* and 300 seconds; a success never raises it; and after 31 successes in a
\* row, which bring even the ceiling under the floor, it is the floor.
C16_SuccessKeepsDelayWithinBounds ==
    /\ rate_limiter.retry_delay >= 12 * Ms
    /\ rate_limiter.retry_delay <= 300 * Ms
    /\ history.outcome = "success" => rate_limiter.retry_delay <= history.before
    /\ history.streak >= 31 => rate_limiter.retry_delay = 12 * Ms

C16_Witness ==
    /\ history.outcome = "success"
    /\ history.streak = 31
    /\ history.before > 12 * Ms
    /\ rate_limiter.retry_delay = 12 * Ms

\* C17, as stated: after a record_call(success=False) retry_delay is strictly
\* greater than before the call.
C17_FailureStrictlyRaisesDelay ==
    history.outcome = "failure" => rate_limiter.retry_delay > history.before

\* C17, amended: after a record_call(success=False) retry_delay is strictly
\* greater than before the call, unless it was already at the ceiling of 300
\* seconds, where it stays.
C17_FailureRaisesDelayUpToCeiling ==
    history.outcome = "failure" =>
       /\ rate_limiter.retry_delay <= 300 * Ms
       /\ \/ rate_limiter.retry_delay > history.before
          \/ history.before = 300 * Ms /\ rate_limiter.retry_delay = 300 * Ms

C17_Witness ==
    /\ history.outcome = "failure"
    /\ history.before = 300 * Ms
    /\ rate_limiter.retry_delay = 300 * Ms

\* C18: a thread that is through the wrapper's call has made exactly one
\* record_call, with success=True if the call returned and success=False if
\* it raised, whatever it raised.
C18_EveryCallRecordedOnce ==
    \A w \in Workers :
       (workers[w].pc \in {"idle", "penalty"} /\ workers[w].outcome # "") =>
          /\ workers[w].records = 1
          /\ workers[w].recorded =
                IF workers[w].outcome = "returned" THEN "success" ELSE "failure"

\* C19: no request is out at the provider that went out at an instant when
\* can_make_call said no.
C19_NoCallWhileNotAdmitted ==
    \A w \in Workers : workers[w].pc = "calling" => workers[w].admitted

\* Every request that went out has come back with a value, or is still out.
AllCallsReturned ==
    /\ history.streak = Total(rate_limiter.day_calls)
    /\ Total(issued) = Total(rate_limiter.day_calls)
                          + Cardinality({w \in Workers : workers[w].pc = "calling"})

\* C20: in no minute have more than calls_per_minute requests gone out to
\* the provider, and in the day no more than calls_per_day, also when every
\* call succeeds and so is recorded.
C20_IssuedCallsWithinCeilings ==
    AllCallsReturned =>
       /\ \A m \in DOMAIN issued : issued[m] <= calls_per_minute
       /\ Total(issued) <= calls_per_day

\* What the fetch that has ended was made against: a degraded adapter, a
\* source without its client, or a backend whose last answer was a failure.
FetchFailed ==
    /\ fetching.pc = "done"
    /\ \/ fetching.degraded
       \/ fetching.source # "yahoo" /\ ClientOf(stock_service, fetching.source) = ""
       \/ fetching.answer # "quote"

\* C21: with DEBUG false, a fetch against a degraded adapter, an unconfigured
\* source or a failing backend ends in the typed error of the source the call
\* read, a class that exceptions.py defines, and never in synthetic data.
C21_StrictFetchRaisesTypedError ==
    (FetchFailed /\ ~DEBUG) =>
        /\ fetching.result.kind = "raise"
        /\ fetching.result.exc = TypedError(fetching.source)
        /\ fetching.result.exc \in exceptions

\* C22: with DEBUG true, a fetch against a degraded adapter or a failing
\* backend never raises: it ends in synthetic data with a price above 0 and a
\* volume between 50000000 and 200000000.
C22_PermissiveFetchReturnsSynthetic ==
    (FetchFailed /\ DEBUG) =>
        /\ fetching.result.kind = "mock"
        /\ fetching.result.price > 0
        /\ fetching.result.volume >= 50000000
        /\ fetching.result.volume <= 200000000

\* C29: after every change of the data source or of the API keys followed by
\* refresh_data_sources, the adapter is live only if the last probe succeeded
\* on the selected source with a client made from the key configured now; a
\* keyed source without a key leaves the adapter degraded.
C29_LiveOnlyOnConfiguredBackend ==
    LET probe == stock_service.probe
        key == KeyOf(api_keys, data_source)
    IN  /\ ~use_mock_data =>
              /\ probe.ok
              /\ probe.source = data_source
              /\ probe.client = key
        /\ (data_source \in {"alpha_vantage", "polygon"} /\ key = "") => use_mock_data

\* The three checks of the limiter `rl` at time `now`, each by itself.
DailyCeilingReached(rl, now) ==
    Get(rl.day_calls, now \div (24 * 3600)) >= rl.calls_per_day

MinuteCeilingReached(rl, now) ==
    Get(rl.minute_calls, now \div 60) >= rl.calls_per_minute

SpacingTooShort(rl, now) ==
    (now - rl.last_call_time) * Ms < rl.retry_delay

\* C26: can_make_call answers with the wait of the first check that blocks,
\* in the order daily ceiling, per-minute ceiling, spacing, and with
\* (True, None) exactly when none blocks.
C26_FirstBlockingCheckDecides ==
    admission.asked =>
       LET rl == admission.limiter
           now == admission.now
           daily == DailyCeilingReached(rl, now)
           minute == MinuteCeilingReached(rl, now)
           spacing == SpacingTooShort(rl, now)
       IN  /\ daily => admission.wait = ((now \div (24 * 3600)) + 1) * 24 * 3600 - now
           /\ (~daily /\ minute) => admission.wait = 60 - (now % 60)
           /\ (~daily /\ ~minute /\ spacing) =>
                 admission.wait = (rl.retry_delay - (now - rl.last_call_time) * Ms) \div Ms
           /\ admission.can <=> ~(daily \/ minute \/ spacing)
           /\ admission.can => admission.wait = 0

\* C26: and it neither assigns to the limiter nor lets time pass.
C26_AdmitLeavesLimiterAlone ==
    [][admission' # admission =>
          (rate_limiter' = rate_limiter /\ clock' = clock /\ workers' = workers)]_vars

C26_AdmitIsPureAndOrdered ==
    []C26_FirstBlockingCheckDecides /\ C26_AdmitLeavesLimiterAlone

\* can_make_call was asked with the daily and the per-minute ceiling both
\* reached, and answered with the wait for the next day.
C26_Witness ==
    /\ admission.asked
    /\ ~admission.can
    /\ DailyCeilingReached(admission.limiter, admission.now)
    /\ MinuteCeilingReached(admission.limiter, admission.now)
    /\ admission.wait > 60

\* The delays that `successes` record_call(True) and `failures`
\* record_call(False), made one after the other in any order, lead to.
RECURSIVE SerialDelays(_, _)
SerialDelays(successes, failures) ==
    IF successes = 0 /\ failures = 0
    THEN {RateLimiter(calls_per_minute, calls_per_day).retry_delay}
    ELSE (IF successes = 0 THEN {}
          ELSE {AdjustDelay(d, TRUE) : d \in SerialDelays(successes - 1, failures)})
         \cup
         (IF failures = 0 THEN {}
          ELSE {AdjustDelay(d, FALSE) : d \in SerialDelays(successes, failures - 1)})

\* C27: once k record_call calls of the pool's threads have returned and none
\* is running, the counters of the minute and of the day stand at k and the
\* delay is what the k adjustments made one after the other give.
C27_RecordsAreSerialized ==
    (\A w \in Workers : recording[w].pc = "idle") =>
       LET k == recorded.success + recorded.failure
       IN  /\ Get(rate_limiter.minute_calls, clock \div 60) = k
           /\ Get(rate_limiter.day_calls, clock \div (24 * 3600)) = k
           /\ rate_limiter.retry_delay \in SerialDelays(recorded.success, recorded.failure)

\* C28: the wrapped call is invoked at most max_retries times; an error that
\* is not transient is propagated by the invocation that raised it, a
\* transient one is retried after base_delay * 2 ^ attempt, and whatever the
\* last allowed attempt raises is propagated.
C28_InvocationsBounded ==
    \A w \in Workers : workers[w].calls <= max_retries

C28_RetryOnlyTransient ==
    [][\A w \in Workers :
          LET a == workers[w]
              b == workers'[w]
              propagated == b.pc \in {"idle", "penalty"} /\ b.attempt = a.attempt
          IN  (a.pc = "calling" /\ b # a) =>
                 /\ b.outcome = "error" => propagated
                 /\ b.pc = "backoff" =>
                       /\ b.outcome \in {"429", "timeout"}
                       /\ b.attempt = a.attempt + 1
                       /\ b.wake = clock + base_delay * (2 ^ a.attempt)
                 /\ (b.outcome \in {"429", "timeout"} /\ a.attempt < max_retries - 1) =>
                       b.pc = "backoff"
                 /\ (b.outcome # "returned" /\ a.attempt = max_retries - 1) =>
                       propagated]_vars

C28_RetryPolicy == []C28_InvocationsBounded /\ C28_RetryOnlyTransient

\* A thread whose first attempt timed out, whose retry came after the backoff
\* and timed out again, and to whose caller that error went.
C28_Witness ==
    \E w \in Workers :
       /\ workers[w].pc = "idle"
       /\ workers[w].calls = max_retries
       /\ workers[w].attempt = max_retries - 1
       /\ workers[w].outcome = "timeout"

\* C23: a task whose quote was fetched and whose scoring backend answered
\* with text that is no JSON returns a record with score 50, and the cycle
\* leaves no error for its symbol.
C23_MalformedAnswerScoresFifty ==
    \A t \in ThreadIds : api_key # "none" =>
       \A i \in DOMAIN threads[t].futures :
          LET f == threads[t].futures[i]
          IN  (f.done /\ f.fetch = "quote" /\ f.backend = "malformed") =>
                 /\ f.result.kind = "StockAnalysis"
                 /\ f.result.average_score = 50
                 /\ Completed(t) =>
                       \A k \in DOMAIN latest_errors : latest_errors[k].symbol # f.symbol

\* C24: every score in the result of a scoring call lies between 0 and 100,
\* whatever number the backend answered with.
C24_ScoresWithinRange ==
    (scored.called /\ ~scored.result.raised) =>
       \A i \in DOMAIN scored.result.analyses :
          /\ scored.result.analyses[i].score >= 0
          /\ scored.result.analyses[i].score <= 100

\* C25: analyze_stock_multi_ai returns a result; it holds, in the tier's
\* order, the score of each entitled persona whose analysis succeeded and of
\* no other, with their mean (to the tenth the result is rounded to) as the
\* average; when none succeeded it holds the basic persona's score alone.
C25_ResultHoldsTheSuccesses ==
    scored.called =>
       LET ai_models == get_subscription_limits(scored.tier)
           succeeded == SelectSeq(ai_models, LAMBDA m : scored.outcomes[m].ok)
           analyses == scored.result.analyses
       IN  /\ ~scored.result.raised
           /\ succeeded # <<>> =>
                 /\ Len(analyses) = Len(succeeded)
                 /\ \A i \in DOMAIN analyses :
                       /\ analyses[i].ai_model = succeeded[i]
                       /\ analyses[i].score = scored.outcomes[succeeded[i]].score
                 /\ LET sum == SumScores(analyses)
                        count == Len(analyses)
                    IN  /\ 2 * (count * scored.result.average_score - 10 * sum) <= count
                        /\ 2 * (10 * sum - count * scored.result.average_score) <= count
           /\ succeeded = <<>> =>
                 /\ Len(analyses) = 1
                 /\ analyses[1].ai_model = "basic"

\* C30: the user never tracks more than max_stocks stocks, and no symbol
\* twice.
C30_TrackedWithinLimit ==
    /\ Total(user_stocks) <= max_stocks
    /\ \A symbol \in StockSymbols : user_stocks[symbol] <= 1

====
